---- MODULE Spec2Model ----
(***************************************************************************)
(* State-machine model of ChromaDBManager (src/src/database/               *)
(* chroma_client.py): one manager object over a persistent chromadb        *)
(* client.  The manager's methods are the actions; the chromadb calls they *)
(* make (get_or_create_collection, delete_collection, Collection.add,      *)
(* query, get, delete, update, count) are operators whose behaviour is     *)
(* that of the chromadb releases that provide PersistentClient (>= 0.4).   *)
(* The chunkers of src/src/chunking/chunking.py are modelled beside it.    *)
(***************************************************************************)
EXTENDS Integers, Sequences, FiniteSets, TLC

VARIABLES
    db,               \* the persist directory: collection name -> collection
    collection_name,  \* self.collection_name
    collection,       \* self.collection: handle (uuid) of a collection
    last,             \* the last manager call: arguments, locals, outcome
    pc,               \* position of each concurrent add_chunks caller
    frame,            \* locals of each concurrent add_chunks caller
    chunker,          \* the chunker object the caller holds
    chunked           \* the last chunker call: arguments and outcome

vars == <<db, collection_name, collection, last, pc, frame, chunker, chunked>>

-----------------------------------------------------------------------------
(* Bounds of the model *)

\* longest id list passed to get_chunks_by_ids / delete_chunks / update
MaxIds == 2
\* largest n_results passed to query_similar
MaxK == 3
\* longest batch passed to add_chunks
MaxBatch == 2
\* longest document, in words, handed to a chunker
MaxDoc == 3

-----------------------------------------------------------------------------
(* Values *)

\* Optional[...] arguments: None, or a one-element tuple holding the value
None == <<>>

Some(x) == <<x>>

\* line 15: the default collection name, and one more name to switch to
Names == {"document_chunks", "notes"}

\* metadata dictionaries: key -> value, NoKey where the key is not set
Keys == {"source", "page"}

NoKey == "<unset>"

Meta(s, p) == [source |-> s, page |-> p]

\* a document is its sequence of words
DocA == <<"sky", "blue">>

DocB == <<"paris", "france">>

DocC == <<"paris", "tower">>

Chunk(i, d, e, m) == [id |-> i, document |-> d, embedding |-> e, metadata |-> m]

\* f"chunk_{start_id + i}" (line 57)
ChunkId(n) == "chunk_" \o ToString(n)

\* ids callers pass: the generated form, and one that is never generated
IdPool == {ChunkId(0), ChunkId(1), ChunkId(2), "doc-x"}

Range(s) == {s[i] : i \in DOMAIN s}

Min(a, b) == IF a <= b THEN a ELSE b

\* duplicate-free, non-empty id lists of at most n ids
IdLists(n) ==
    {s \in UNION {[1..m -> IdPool] : m \in 1..n} :
        \A i, j \in DOMAIN s : i # j => s[i] # s[j]}

-----------------------------------------------------------------------------
(* A chromadb collection: its uuid, the embedding dimensionality fixed by  *)
(* its first insert (0 while none), and its records in insertion order.    *)
(* uuid = 0 stands for "no such collection".                               *)

NoCollection == [uuid |-> 0, dim |-> 0, chunks |-> <<>>]

Ids(c) == {c.chunks[i].id : i \in DOMAIN c.chunks}

\* Collection.count(), called at lines 56 and 110
CollectionCount(c) == Len(c.chunks)

\* the records of c that satisfy keep, in their stored order
RECURSIVE FilterSeq(_, _)
FilterSeq(s, keep) ==
    IF s = <<>> THEN <<>>
    ELSE IF Head(s).id \in keep THEN <<Head(s)>> \o FilterSeq(Tail(s), keep)
    ELSE FilterSeq(Tail(s), keep)

\* outcome of a library call: what it raised ("ok": nothing), the
\* collection afterwards and the value returned
Outcome(r, c, o) == [result |-> r, coll |-> c, out |-> o]

\* The parameters of Collection.add; Python binds keyword arguments by name
\* and raises TypeError for a keyword the callee does not declare, or when
\* the required parameter ids is not given, before the callee runs.
AddParams == {"ids", "embeddings", "metadatas", "documents", "images", "uris"}

\* Collection.add, called at line 59.  kw is the keyword arguments of the
\* call.  A bound call validates its batch (non-empty, equal lengths, ids
\* unique in the batch, one dimensionality that agrees with the
\* collection's), then appends the records whose id is not stored yet;
\* a record whose id is already stored is skipped without an error.
CollectionAdd(c, kw) ==
    IF ~(DOMAIN kw \subseteq AddParams) \/ "ids" \notin DOMAIN kw
    THEN Outcome("TypeError", c, None)
    ELSE LET ids  == kw.ids
             n    == Len(ids)
             embs == kw.embeddings
             docs == kw.documents
             mds  == IF kw.metadatas = None
                     THEN [i \in 1..n |-> Meta(NoKey, NoKey)]
                     ELSE kw.metadatas[1]
             d    == IF c.dim # 0 THEN c.dim ELSE Len(embs[1])
             fresh == {i \in 1..n : ids[i] \notin Ids(c)}
             RECURSIVE Append_(_)
             Append_(i) ==
                 IF i = 0 THEN c.chunks
                 ELSE IF i \in fresh
                      THEN Append(Append_(i - 1),
                                  Chunk(ids[i], docs[i], embs[i], mds[i]))
                      ELSE Append_(i - 1)
         IN  IF n = 0 \/ Len(embs) # n \/ Len(docs) # n \/ Len(mds) # n
             THEN Outcome("ValueError", c, None)
             ELSE IF \E i, j \in 1..n : i # j /\ ids[i] = ids[j]
             THEN Outcome("DuplicateIDError", c, None)
             ELSE IF \E i \in 1..n : Len(embs[i]) # d
             THEN Outcome("InvalidDimensionException", c, None)
             ELSE Outcome("ok", [c EXCEPT !.dim = d, !.chunks = Append_(n)], None)

\* a get that rejects an id that is not stored
CollectionGetStrict(c, ids) ==
    IF Range(ids) \subseteq Ids(c)
    THEN LET found == FilterSeq(c.chunks, Range(ids))
         IN  Outcome("ok", c,
                     [ids       |-> [i \in DOMAIN found |-> found[i].id],
                      documents |-> [i \in DOMAIN found |-> found[i].document],
                      metadatas |-> [i \in DOMAIN found |-> found[i].metadata]])
    ELSE Outcome("ValueError", c, None)

\* Collection.get(ids=ids), called at line 92: the stored records whose id
\* is requested, as parallel lists; an id that is not stored yields nothing
CollectionGet(c, ids) ==
    LET found == FilterSeq(c.chunks, Range(ids))
    IN  Outcome("ok", c,
                [ids       |-> [i \in DOMAIN found |-> found[i].id],
                 documents |-> [i \in DOMAIN found |-> found[i].document],
                 metadatas |-> [i \in DOMAIN found |-> found[i].metadata]])

\* a delete that rejects an id that is not stored
CollectionDeleteStrict(c, ids) ==
    IF Range(ids) \subseteq Ids(c)
    THEN Outcome("ok", [c EXCEPT !.chunks = FilterSeq(c.chunks, Ids(c) \ Range(ids))], None)
    ELSE Outcome("ValueError", c, None)

\* Collection.delete(ids=ids), called at line 101: removes the stored
\* records among ids; an id that is not stored is skipped without an error
CollectionDelete(c, ids) ==
    Outcome("ok", [c EXCEPT !.chunks = FilterSeq(c.chunks, Ids(c) \ Range(ids))], None)

\* an update that puts the dictionary passed in place of the stored one
ReplaceMeta(old, new) == new

\* metadata update of one record: the keys given are set, the others kept
MergeMeta(old, new) == [k \in Keys |-> IF new[k] # NoKey THEN new[k] ELSE old[k]]

\* Collection.update(ids=ids, metadatas=metadatas), called at lines 154-157:
\* rejects lists of different lengths; updates the stored records among ids
\* and skips (with a log line, no exception) an id that is not stored
CollectionUpdate(c, ids, metadatas) ==
    IF Len(ids) # Len(metadatas)
    THEN Outcome("ValueError", c, None)
    ELSE LET new(ch) == LET i == CHOOSE j \in DOMAIN ids : ids[j] = ch.id
                        IN  [ch EXCEPT !.metadata = MergeMeta(ch.metadata, metadatas[i])]
         IN  Outcome("ok",
                     [c EXCEPT !.chunks =
                         [i \in DOMAIN c.chunks |->
                             IF c.chunks[i].id \in Range(ids)
                             THEN new(c.chunks[i]) ELSE c.chunks[i]]],
                     None)

\* distance of the collection's default space (squared L2)
RECURSIVE Distance(_, _)
Distance(a, b) ==
    IF a = <<>> THEN 0
    ELSE (Head(a) - Head(b)) * (Head(a) - Head(b)) + Distance(Tail(a), Tail(b))

\* where: every key the filter sets has that value in the record's metadata
MatchesWhere(ch, where) ==
    where = None \/ \A k \in Keys : where[1][k] # NoKey => ch.metadata[k] = where[1][k]

\* where_document {"$contains": w}: the word occurs in the document
MatchesDocument(ch, where_document) ==
    where_document = None \/ where_document[1] \in Range(ch.document)

\* positions of the records a filtered query may return
Eligible(c, where, where_document) ==
    {i \in DOMAIN c.chunks :
        MatchesWhere(c.chunks[i], where) /\ MatchesDocument(c.chunks[i], where_document)}

\* a search that returns the first k eligible records as they are stored
RankingsAsStored(c, q, k, elig) ==
    {r \in [1..k -> elig] :
        /\ \A i, j \in 1..k : i < j => r[i] < r[j]
        /\ \A e \in elig \ Range(r) : \A i \in 1..k : r[i] < e}

\* The rankings a nearest-neighbour search for k of the eligible records may
\* return: the k nearest, nearest first.  The index defines no order among
\* records at the same distance, so every order of them is a possible one.
Rankings(c, q, k, elig) ==
    LET dist(i) == Distance(c.chunks[i].embedding, q)
    IN  {r \in [1..k -> elig] :
            /\ \A i, j \in 1..k : i < j => r[i] # r[j] /\ dist(r[i]) <= dist(r[j])
            /\ \A e \in elig \ Range(r) : \A i \in 1..k : dist(r[i]) <= dist(e)}

\* a query that raises when fewer records are eligible than are asked for
CollectionQueryStrict(c, q, n_results, where, where_document) ==
    IF n_results <= 0 THEN {Outcome("TypeError", c, None)}
    ELSE IF c.dim # 0 /\ Len(q) # c.dim
    THEN {Outcome("InvalidDimensionException", c, None)}
    ELSE IF n_results > Cardinality(Eligible(c, where, where_document))
    THEN {Outcome("NotEnoughElementsException", c, None)}
    ELSE {Outcome("ok", c,
                  [ids       |-> [i \in 1..n_results |-> c.chunks[r[i]].id],
                   documents |-> [i \in 1..n_results |-> c.chunks[r[i]].document],
                   metadatas |-> [i \in 1..n_results |-> c.chunks[r[i]].metadata],
                   distances |-> [i \in 1..n_results |->
                                     Distance(c.chunks[r[i]].embedding, q)]])
          : r \in Rankings(c, q, n_results, Eligible(c, where, where_document))}

\* Collection.query(query_embeddings=[q], n_results, where, where_document),
\* called at lines 74-79: the set of outcomes the call may have.  n_results
\* must be positive; the query's dimensionality must be the collection's;
\* n_results above the number of eligible records is lowered to it.  The
\* lists returned are those of the single query embedding.
CollectionQuery(c, q, n_results, where, where_document) ==
    IF n_results <= 0 THEN {Outcome("TypeError", c, None)}
    ELSE IF c.dim # 0 /\ Len(q) # c.dim
    THEN {Outcome("InvalidDimensionException", c, None)}
    ELSE LET elig == Eligible(c, where, where_document)
             k    == Min(n_results, Cardinality(elig))
         IN  {Outcome("ok", c,
                      [ids       |-> [i \in 1..k |-> c.chunks[r[i]].id],
                       documents |-> [i \in 1..k |-> c.chunks[r[i]].document],
                       metadatas |-> [i \in 1..k |-> c.chunks[r[i]].metadata],
                       distances |-> [i \in 1..k |-> Distance(c.chunks[r[i]].embedding, q)]])
              : r \in Rankings(c, q, k, elig)}

-----------------------------------------------------------------------------
(* The client: the collections of the persist directory, by name *)

Exists(d, name) == d[name].uuid # 0

\* a uuid no collection has and no handle holds
FreshUuid(d, held) ==
    CHOOSE u \in 1..(Cardinality(Names) + 1) :
        /\ u \notin {d[n].uuid : n \in Names} \cup {held}
        /\ \A v \in 1..(u - 1) : v \in {d[n].uuid : n \in Names} \cup {held}

\* client.get_or_create_collection(name=...), lines 39, 118 and 141: the
\* directory afterwards; an existing collection is left as it is
GetOrCreateCollection(d, name, held) ==
    IF Exists(d, name) THEN d
    ELSE [d EXCEPT ![name] = [uuid |-> FreshUuid(d, held), dim |-> 0, chunks |-> <<>>]]

\* client.delete_collection(name), line 117
DeleteCollection(d, name) == [d EXCEPT ![name] = NoCollection]

\* client.list_collections(), line 130 (the names, line 131)
ListCollections(d) == {n \in Names : Exists(d, n)}

-----------------------------------------------------------------------------
(* What the persist directory may hold when the manager is constructed:    *)
(* nothing, or collections written by an earlier run of a chromadb client. *)

SeedChunks ==
    << Chunk(ChunkId(0), DocA, <<0>>, Meta("a.pdf", "1")),
       Chunk(ChunkId(1), DocB, <<2>>, Meta("a.pdf", NoKey)),
       Chunk(ChunkId(2), DocC, <<1>>, Meta("b.pdf", "1")) >>

NoteChunks == << Chunk(ChunkId(0), DocB, <<1>>, Meta("b.pdf", NoKey)) >>

FreshDir == [n \in Names |-> NoCollection]

IngestedDir ==
    [FreshDir EXCEPT !["document_chunks"] =
        [uuid |-> 1, dim |-> Len(SeedChunks[1].embedding), chunks |-> SeedChunks]]

SharedDir ==
    [IngestedDir EXCEPT !["notes"] =
        [uuid |-> IngestedDir["document_chunks"].uuid + 1,
         dim |-> Len(NoteChunks[1].embedding), chunks |-> NoteChunks]]

PersistedDirs == {FreshDir, IngestedDir, SharedDir}

\* arguments the callers of the model pass
QueryEmbeddings == {<<0>>, <<1>>, <<1, 1>>}

WhereFilters == {None, Some(Meta("a.pdf", NoKey))}

DocumentFilters == {None, Some("paris")}

MetaUpdates == {Meta("b.pdf", NoKey)}

AddBatches ==
    UNION {{[chunks |-> SubSeq(<<DocA, DocB, DocC>>, 1, n),
             embeddings |-> SubSeq(<<b[1], <<2>>, <<1>> >>, 1, n),
             metadatas |-> IF b[2] THEN Some([i \in 1..n |-> Meta("a.pdf", NoKey)])
                           ELSE None] :
                b \in {<< <<0>>, TRUE >>, << <<0>>, FALSE >>, << <<0, 0>>, TRUE >>}}
           : n \in 1..MaxBatch}

\* the ids argument of add_chunks for a batch of n chunks
AddIdArgs(n) ==
    {None, Some(SubSeq(<<"doc-x", ChunkId(1), ChunkId(0)>>, 1, n)),
           Some(SubSeq(<<ChunkId(0), ChunkId(1), ChunkId(2)>>, 1, n))}

-----------------------------------------------------------------------------
(* The manager's methods: the outcome of a call made with the directory d  *)
(* and the handle h (self.collection): what it raised, the directory       *)
(* afterwards, the value returned and the ids it worked on.                *)

Result(r, d, o, ids) == [result |-> r, db |-> d, out |-> o, ids |-> ids]

\* the name of the collection a handle refers to
Target(d, h) == CHOOSE n \in Names : d[n].uuid = h

\* a handle is usable while its collection exists
Live(d, h) == h # 0 /\ \E n \in Names : d[n].uuid = h

\* the collection self.collection refers to
Cur(d, h) == d[Target(d, h)]

\* a call on self.collection with outcome o
OnCollection(d, h, o, ids) ==
    Result(o.result, [d EXCEPT ![Target(d, h)] = o.coll], o.out, ids)

\* the ids add_chunks passes on: the caller's, or generated from the
\* collection's size (lines 54-57)
AddIds(ids, start_id, chunks) ==
    IF ids = None THEN [i \in 1..Len(chunks) |-> ChunkId(start_id + (i - 1))]
    ELSE ids[1]

\* the keyword arguments of the call at line 59
AddKeywords(chunks, embeddings, metadatas, ids) ==
    [ndocuments |-> chunks, nembeddings |-> embeddings,
     nmetadatas |-> metadatas, nids |-> ids]

\* add_chunks, lines 44-59
AddChunks(d, h, chunks, embeddings, metadatas, ids) ==
    LET start_id == CollectionCount(Cur(d, h))
        ids2     == AddIds(ids, start_id, chunks)
    IN  OnCollection(d, h,
            CollectionAdd(Cur(d, h), AddKeywords(chunks, embeddings, metadatas, ids2)),
            ids2)

\* query_similar, lines 61-80: the outcomes the call may have
QuerySimilar(d, h, query_embedding, n_results, where, where_document) ==
    {OnCollection(d, h, o, <<>>) :
        o \in CollectionQuery(Cur(d, h), query_embedding, n_results, where, where_document)}

\* a lookup that takes the records it returns out of the collection
GetAndRemove(d, h, ids) ==
    OnCollection(d, h,
        Outcome("ok", CollectionDelete(Cur(d, h), ids).coll, CollectionGet(Cur(d, h), ids).out),
        ids)

\* get_chunks_by_ids, lines 82-92
GetChunksByIds(d, h, ids) == OnCollection(d, h, CollectionGet(Cur(d, h), ids), ids)

\* delete_chunks, lines 94-101
DeleteChunks(d, h, ids) == OnCollection(d, h, CollectionDelete(Cur(d, h), ids), ids)

\* count_chunks, lines 103-110
CountChunks(d, h) == Result("ok", d, CollectionCount(Cur(d, h)), <<>>)

\* a reset that clears the whole directory (client.reset()) before it
\* creates the collection again
ResetClient(d, h, name) ==
    Result("ok", GetOrCreateCollection([n \in Names |-> NoCollection], name, h), None, <<>>)

\* reset_collection, lines 112-121; the new handle is that of the
\* collection created at line 118
ResetCollection(d, h, name) ==
    Result("ok", GetOrCreateCollection(DeleteCollection(d, name), name, h), None, <<>>)

\* list_collections, lines 123-131
ListNames(d) == Result("ok", d, ListCollections(d), <<>>)

\* a switch that takes the name and creates nothing
SwitchWithoutCreate(d, h, name) == Result("ok", d, None, <<>>)

\* switch_collection, lines 133-144
SwitchCollection(d, h, name) ==
    Result("ok", GetOrCreateCollection(d, name, h), None, <<>>)

\* update_chunk_metadata, lines 146-157
UpdateChunkMetadata(d, h, ids, metadatas) ==
    OnCollection(d, h, CollectionUpdate(Cur(d, h), ids, metadatas), ids)

\* a constructor that starts from an empty collection of its name
ConstructFresh(d, name) ==
    Result("ok", GetOrCreateCollection(DeleteCollection(d, name), name, 0), None, <<>>)

\* __init__, lines 15-42, in a new process on the directory d: the client
\* opens what the directory holds (lines 30-36) and the collection is got
\* or created (lines 39-42); no handle of the old process is left
Construct(d, name) == Result("ok", GetOrCreateCollection(d, name, 0), None, <<>>)

-----------------------------------------------------------------------------
(* The record of a manager call: the method, its arguments, the directory  *)
(* and collection name it started from, and its outcome.                   *)

Call(op, args, o, before, name) ==
    [op |-> op, args |-> args, ids |-> o.ids, result |-> o.result, out |-> o.out,
     before |-> before, name |-> name]

\* no call is outstanding
NoCall ==
    [op |-> "idle", args |-> <<>>, ids |-> <<>>, result |-> "ok", out |-> None,
     before |-> FreshDir, name |-> ""]

Threads == {1, 2}

Idle == [t \in Threads |-> "idle"]

NoFrame ==
    [t \in Threads |->
        [chunks |-> <<>>, embeddings |-> <<>>, start_id |-> 0, ids |-> <<>>,
         result |-> "ok"]]

\* no chunker has been constructed
NoChunker == [cls |-> "none", model |-> None]

\* no chunker call has been made
NoChunkCall == [op |-> "idle", args |-> <<>>, result |-> "ok", out |-> None]

\* __init__, lines 15-42, on a directory that holds dir
Init ==
    \E dir \in PersistedDirs, name \in Names :
        /\ db = GetOrCreateCollection(dir, name, 0)
        /\ collection_name = name
        /\ collection = db[name].uuid
        /\ last = NoCall
        /\ pc = Idle
        /\ frame = NoFrame
        /\ chunker = NoChunker
        /\ chunked = NoChunkCall

\* the step of a method that keeps self.collection_name and self.collection
Method(op, args, o) ==
    /\ db' = o.db
    /\ last' = Call(op, args, o, db, collection_name)
    /\ UNCHANGED <<collection_name, collection, pc, frame, chunker, chunked>>

add_chunks(chunks, embeddings, metadatas, ids) ==
    /\ last.op = "idle"
    /\ Live(db, collection)
    /\ Method("add_chunks",
              [chunks |-> chunks, embeddings |-> embeddings,
               metadatas |-> metadatas, ids |-> ids],
              AddChunks(db, collection, chunks, embeddings, metadatas, ids))

query_similar(query_embedding, n_results, where, where_document) ==
    /\ last.op = "idle"
    /\ Live(db, collection)
    /\ \E o \in QuerySimilar(db, collection, query_embedding, n_results,
                             where, where_document) :
           Method("query_similar",
                  [query_embedding |-> query_embedding, n_results |-> n_results,
                   where |-> where, where_document |-> where_document], o)

get_chunks_by_ids(ids) ==
    /\ last.op = "idle"
    /\ Live(db, collection)
    /\ Method("get_chunks_by_ids", [ids |-> ids], GetChunksByIds(db, collection, ids))

delete_chunks(ids) ==
    /\ last.op = "idle"
    /\ Live(db, collection)
    /\ Method("delete_chunks", [ids |-> ids], DeleteChunks(db, collection, ids))

count_chunks ==
    /\ last.op = "idle"
    /\ Live(db, collection)
    /\ Method("count_chunks", <<>>, CountChunks(db, collection))

reset_collection ==
    /\ last.op = "idle"
    /\ Exists(db, collection_name)
    /\ LET o == ResetCollection(db, collection, collection_name)
       IN  /\ db' = o.db
           /\ collection' = o.db[collection_name].uuid
           /\ last' = Call("reset_collection", <<>>, o, db, collection_name)
    /\ UNCHANGED <<collection_name, pc, frame, chunker, chunked>>

list_collections ==
    /\ last.op = "idle"
    /\ Method("list_collections", <<>>, ListNames(db))

switch_collection(name) ==
    /\ last.op = "idle"
    /\ LET o == SwitchCollection(db, collection, name)
       IN  /\ db' = o.db
           /\ collection_name' = name
           /\ collection' = o.db[name].uuid
           /\ last' = Call("switch_collection", [collection_name |-> name], o,
                           db, collection_name)
    /\ UNCHANGED <<pc, frame, chunker, chunked>>

update_chunk_metadata(ids, metadatas) ==
    /\ last.op = "idle"
    /\ Live(db, collection)
    /\ Method("update_chunk_metadata", [ids |-> ids, metadatas |-> metadatas],
              UpdateChunkMetadata(db, collection, ids, metadatas))

\* the process ends and a new one constructs a manager on the same
\* directory: ChromaDBManager(persist_directory, name)
restart(name) ==
    /\ last.op = "idle"
    /\ LET o == Construct(db, name)
       IN  /\ db' = o.db
           /\ collection_name' = name
           /\ collection' = o.db[name].uuid
           /\ last' = Call("__init__", [collection_name |-> name], o,
                           db, collection_name)
    /\ UNCHANGED <<pc, frame, chunker, chunked>>

\* the caller takes the outcome of the call; the next call starts from here
Return ==
    /\ last.op # "idle"
    /\ last' = NoCall
    /\ UNCHANGED <<db, collection_name, collection, pc, frame, chunker, chunked>>

Next ==
    \/ \E b \in AddBatches : \E ids \in AddIdArgs(Len(b.chunks)) :
           add_chunks(b.chunks, b.embeddings, b.metadatas, ids)
    \/ \E q \in QueryEmbeddings, k \in 0..MaxK, w \in WhereFilters, wd \in DocumentFilters :
           query_similar(q, k, w, wd)
    \/ \E ids \in IdLists(MaxIds) : get_chunks_by_ids(ids)
    \/ \E ids \in IdLists(MaxIds) : delete_chunks(ids)
    \/ count_chunks
    \/ reset_collection
    \/ list_collections
    \/ \E name \in Names : switch_collection(name)
    \/ \E ids \in IdLists(MaxIds), m \in MetaUpdates :
           update_chunk_metadata(ids, [i \in DOMAIN ids |-> m])
    \/ \E name \in Names : restart(name)
    \/ Return

Spec == Init /\ [][Next]_vars

-----------------------------------------------------------------------------
(* Two callers in add_chunks on the same manager at once.  The method      *)
(* takes no lock: a caller reads the collection's size and builds its ids  *)
(* (lines 54-57), and inserts in a later step (line 59).                   *)

\* lines 54-57, ids omitted
AddEnter(t, chunks, embeddings) ==
    /\ pc[t] = "idle"
    /\ Live(db, collection)
    /\ LET start_id == CollectionCount(Cur(db, collection))
       IN  frame' = [frame EXCEPT ![t] =
                        [chunks |-> chunks, embeddings |-> embeddings,
                         start_id |-> start_id,
                         ids |-> AddIds(None, start_id, chunks), result |-> "ok"]]
    /\ pc' = [pc EXCEPT ![t] = "insert"]
    /\ UNCHANGED <<db, collection_name, collection, last, chunker, chunked>>

\* line 59
AddInsert(t) ==
    /\ pc[t] = "insert"
    /\ LET o == OnCollection(db, collection,
                    CollectionAdd(Cur(db, collection),
                        AddKeywords(frame[t].chunks, frame[t].embeddings, None, frame[t].ids)),
                    frame[t].ids)
       IN  /\ db' = o.db
           /\ frame' = [frame EXCEPT ![t].result = o.result]
    /\ pc' = [pc EXCEPT ![t] = "done"]
    /\ UNCHANGED <<collection_name, collection, last, chunker, chunked>>

NextConc ==
    \/ \E t \in Threads, b \in AddBatches : AddEnter(t, b.chunks, b.embeddings)
    \/ \E t \in Threads : AddInsert(t)

SpecConc == Init /\ [][NextConc]_vars

-----------------------------------------------------------------------------
(* The chunkers of src/src/chunking/chunking.py.  A document is a sequence *)
(* of words; a chunk's text is a sequence of words too.                    *)

Words == {"sky", "blue", "paris"}

Documents == UNION {[1..n -> Words] : n \in 0..MaxDoc}

\* the embedding models a caller may name: the default of lines 4, 11 and
\* 15, a model that gives one pooled vector per text and no per-token
\* vectors, and a name under which no model is found
Models ==
    { [name |-> "all-MiniLM-L6-v2", loadable |-> TRUE,  token_vectors |-> TRUE],
      [name |-> "pooled-only",      loadable |-> TRUE,  token_vectors |-> FALSE],
      [name |-> "no-such-model",    loadable |-> FALSE, token_vectors |-> FALSE] }

\* SentenceTransformer(model_name), line 5: loads the model or raises
SentenceTransformer(m) ==
    IF m.loadable THEN [result |-> "ok", model |-> Some(m)]
    ELSE [result |-> "OSError", model |-> None]

\* BaseChunker.__init__, lines 4-5, reached through super().__init__ at
\* lines 12 and 16: the object of class cls, or what the load raised
BaseChunker(cls, m) ==
    LET st == SentenceTransformer(m)
    IN  [result |-> st.result,
         self   |-> IF st.result = "ok" THEN [cls |-> cls, model |-> st.model]
                    ELSE NoChunker]

\* BaseChunker.cunk_document, lines 7-8, called with the positional
\* arguments args: the method takes none besides self and its body is
\* pass, so it returns None
CunkDocument(self, args) ==
    IF args # <<>> THEN [result |-> "TypeError", out |-> None]
    ELSE [result |-> "ok", out |-> None]

\* a caller constructs a chunker of class cls; the caller's variable keeps
\* its old value when the constructor raises
NewChunker(cls, m) ==
    LET o == BaseChunker(cls, m)
    IN  /\ chunker' = IF o.result = "ok" THEN o.self ELSE chunker
        /\ chunked' = [op |-> "__init__", args |-> [cls |-> cls, model |-> m],
                       result |-> o.result, out |-> None]
        /\ UNCHANGED <<db, collection_name, collection, last, pc, frame>>

\* ContextAwareChunking(model_name), lines 10-12
ContextAwareChunking(m) ==
    /\ m \in Models
    /\ NewChunker("ContextAwareChunking", m)

\* LateChunking(model_name), lines 14-16
LateChunking(m) ==
    /\ m \in Models
    /\ NewChunker("LateChunking", m)

\* chunker.cunk_document(*args)
cunk_document(args) ==
    /\ chunker # NoChunker
    /\ LET o == CunkDocument(chunker, args)
       IN  chunked' = [op |-> "cunk_document", args |-> args,
                       result |-> o.result, out |-> o.out]
    /\ UNCHANGED <<db, collection_name, collection, last, pc, frame, chunker>>

NextChunk ==
    \/ \E m \in Models : ContextAwareChunking(m)
    \/ \E m \in Models : LateChunking(m)
    \/ \E args \in {<<>>} \cup {<<d>> : d \in Documents} : cunk_document(args)

SpecChunk == Init /\ [][NextChunk]_vars

-----------------------------------------------------------------------------
(* Properties *)

\* the collection the last call started on, before and after the call
Before == last.before[last.name]

After == db[last.name]

\* position of a stored id in insertion order
Pos(c, id) == CHOOSE i \in DOMAIN c.chunks : c.chunks[i].id = id

\* the length preconditions of add_chunks
LengthsOk(a) ==
    /\ Len(a.embeddings) = Len(a.chunks)
    /\ a.metadatas # None => Len(a.metadatas[1]) = Len(a.chunks)
    /\ a.ids # None => Len(a.ids[1]) = Len(a.chunks)

\* the embeddings of an add_chunks call have the collection's dimensionality
DimsOk(c, a) ==
    \A i \in DOMAIN a.embeddings :
        Len(a.embeddings[i]) = (IF c.dim # 0 THEN c.dim ELSE Len(a.embeddings[1]))

GeneratedIdsUnique ==
    (last.op = "add_chunks" /\ last.args.ids = None)
        => /\ \A i \in DOMAIN last.ids :
                  last.ids[i] = ChunkId(CollectionCount(Before) + (i - 1))
           /\ Range(last.ids) \cap Ids(Before) = {}

\* C3: after add_chunks under given ids, get_chunks_by_ids on those ids
\* returns, for each id, the text and metadata that were passed in.
AddGetRoundTrip ==
    (last.op = "add_chunks" /\ last.args.ids # None /\ last.args.metadatas # None
        /\ LengthsOk(last.args) /\ DimsOk(Before, last.args))
        => LET ids == last.args.ids[1]
               got == GetChunksByIds(db, collection, ids).out
           IN  \A i \in DOMAIN ids :
                   \E j \in DOMAIN got.ids :
                       /\ got.ids[j] = ids[i]
                       /\ got.documents[j] = last.args.chunks[i]
                       /\ got.metadatas[j] = last.args.metadatas[1][i]

\* C4: two concurrent add_chunks calls with ids omitted are serialized: the
\* size read and the insert of one never lie around those of the other, and
\* when both are done every chunk of both batches is stored under its own
\* id, the collection having grown by the two batch sizes.
ConcurrentAddsSerialized ==
    /\ ~(pc[1] = "insert" /\ pc[2] = "insert")
    /\ (pc[1] = "done" /\ pc[2] = "done")
        => LET c == Cur(db, collection)
               first == Min(frame[1].start_id, frame[2].start_id)
           IN  /\ Range(frame[1].ids) \cap Range(frame[2].ids) = {}
               /\ Range(frame[1].ids) \cup Range(frame[2].ids) \subseteq Ids(c)
               /\ CollectionCount(c) = first + Len(frame[1].chunks) + Len(frame[2].chunks)

\* the distances of a query result never decrease
Ascending(out) ==
    \A i, j \in DOMAIN out.ids : i < j => out.distances[i] <= out.distances[j]

\* C5 as stated: results are ordered ascending by distance, and of two
\* results at the same distance the one inserted earlier comes first.
QueryOrderedTiesByInsertion ==
    (last.op = "query_similar" /\ last.result = "ok")
        => /\ Ascending(last.out)
           /\ \A i, j \in DOMAIN last.out.ids :
                  (i < j /\ last.out.distances[i] = last.out.distances[j])
                      => Pos(Before, last.out.ids[i]) < Pos(Before, last.out.ids[j])

\* C5, amended: results are ordered ascending by their distance to the
\* query embedding, each distance being that of the record returned.
QueryOrderedByDistance ==
    (last.op = "query_similar" /\ last.result = "ok")
        => /\ Ascending(last.out)
           /\ \A i \in DOMAIN last.out.ids :
                  last.out.distances[i] =
                      Distance(Before.chunks[Pos(Before, last.out.ids[i])].embedding,
                               last.args.query_embedding)

\* C5 witness: a ranking that is not the insertion order
QueryReordersWitness ==
    /\ last.op = "query_similar" /\ last.result = "ok"
    /\ \E i, j \in DOMAIN last.out.ids :
           /\ i < j /\ last.out.distances[i] < last.out.distances[j]
           /\ Pos(Before, last.out.ids[i]) > Pos(Before, last.out.ids[j])

\* C6: a query for k >= 1 results with an embedding of the collection's
\* dimensionality returns min(k, eligible records) results and does not
\* raise; without filters and with k above the collection's size it returns
\* count_chunks() results, none on an empty collection.
QueryUnderPopulated ==
    (last.op = "query_similar" /\ last.args.n_results >= 1
        /\ (Before.dim = 0 \/ Len(last.args.query_embedding) = Before.dim))
        => LET elig == Eligible(Before, last.args.where, last.args.where_document)
           IN  /\ last.result = "ok"
               /\ Len(last.out.ids) = Min(last.args.n_results, Cardinality(elig))
               /\ Range(last.out.ids) \subseteq {Before.chunks[i].id : i \in elig}
               /\ (last.args.where = None /\ last.args.where_document = None
                     /\ last.args.n_results > CollectionCount(Before))
                      => Len(last.out.ids) = CountChunks(db, collection).out

\* C6 witness: more results asked for than the filters leave eligible
QueryUnderPopulatedWitness ==
    /\ last.op = "query_similar" /\ last.result = "ok"
    /\ last.args.where # None
    /\ Len(last.out.ids) >= 1
    /\ Len(last.out.ids) < last.args.n_results
    /\ Len(last.out.ids) < CollectionCount(Before)

\* C7: delete_chunks does not raise and removes exactly the stored records
\* among its ids; when none of them is stored the collection and its count
\* stay as they were, and deleting the same ids again changes nothing.
DeleteIdempotent ==
    last.op = "delete_chunks"
        => /\ last.result = "ok"
           /\ After.chunks = FilterSeq(Before.chunks, Ids(Before) \ Range(last.args.ids))
           /\ Range(last.args.ids) \cap Ids(Before) = {}
                  => After = Before /\ CollectionCount(After) = CollectionCount(Before)
           /\ LET again == DeleteChunks(db, collection, last.args.ids)
              IN  again.result = "ok" /\ again.db = db
           /\ \A n \in Names \ {last.name} : db[n] = last.before[n]

\* C7 witness: a delete of ids the collection does not hold, on a collection
\* that holds records
DeleteAbsentWitness ==
    /\ last.op = "delete_chunks" /\ last.result = "ok"
    /\ Range(last.args.ids) \cap Ids(Before) = {}
    /\ CollectionCount(After) >= 1

\* C8: after reset_collection the collection is empty, and an add_chunks
\* that follows succeeds, its generated ids starting at chunk_0.
ResetThenAdd ==
    last.op = "reset_collection"
        => /\ CountChunks(db, collection).out = 0
           /\ \A b \in AddBatches :
                  LET o == AddChunks(db, collection, b.chunks, b.embeddings, b.metadatas, None)
                  IN  /\ o.result = "ok"
                      /\ o.ids = [i \in DOMAIN b.chunks |-> ChunkId(i - 1)]
                      /\ Ids(o.db[collection_name]) = Range(o.ids)

\* C9: add_chunks, delete_chunks, update_chunk_metadata and
\* reset_collection change no collection but the current one;
\* switch_collection changes no record of any collection and no collection
\* that exists; switching away and back finds the collection as it was.
CollectionScoped ==
    /\ last.op \in {"add_chunks", "delete_chunks", "update_chunk_metadata", "reset_collection"}
           => \A n \in Names \ {last.name} : db[n] = last.before[n]
    /\ last.op = "switch_collection"
           => \A n \in Names :
                  /\ db[n].chunks = last.before[n].chunks
                  /\ Exists(last.before, n) => db[n] = last.before[n]
    /\ \A n \in Names :
           LET away == SwitchCollection(db, collection, n).db
               back == SwitchCollection(away, away[n].uuid, collection_name).db
           IN  back[collection_name] = db[collection_name]

\* C9 witness: a write to one collection while another collection holds a
\* record under the same id
CollectionScopedWitness ==
    /\ last.op \in {"delete_chunks", "update_chunk_metadata", "reset_collection"}
    /\ After # Before
    /\ \E n \in Names \ {last.name} : Ids(db[n]) \cap Ids(Before) # {}

\* C10 as stated: update_chunk_metadata replaces the metadata of every given
\* id that is stored, and signals NotFoundError when a given id is not.
UpdateSignalsNotFound ==
    last.op = "update_chunk_metadata"
        => /\ \A i \in DOMAIN last.args.ids :
                  last.args.ids[i] \in Ids(Before)
                      => After.chunks[Pos(After, last.args.ids[i])].metadata
                             = last.args.metadatas[i]
           /\ ~(Range(last.args.ids) \subseteq Ids(Before)) => last.result = "NotFoundError"

\* C10, amended: update_chunk_metadata returns normally; in every stored
\* record whose id is given the metadata keys passed are set to the values
\* passed and the other keys keep theirs; a given id that is not stored is
\* skipped; nothing else of the collection changes.
UpdateMergesAndSkips ==
    last.op = "update_chunk_metadata"
        => /\ last.result = "ok"
           /\ Len(After.chunks) = Len(Before.chunks)
           /\ \A p \in DOMAIN Before.chunks :
                  LET old == Before.chunks[p]
                      new == After.chunks[p]
                  IN  IF old.id \in Range(last.args.ids)
                      THEN LET given == last.args.metadatas[
                                   CHOOSE i \in DOMAIN last.args.ids : last.args.ids[i] = old.id]
                           IN  /\ new = [old EXCEPT !.metadata = new.metadata]
                               /\ \A k \in Keys :
                                      new.metadata[k] =
                                          IF given[k] # NoKey THEN given[k] ELSE old.metadata[k]
                      ELSE new = old

\* C10 witness: an update naming a stored id and an id that is not stored,
\* the stored record keeping a key the update does not pass
UpdateWitness ==
    /\ last.op = "update_chunk_metadata" /\ last.result = "ok"
    /\ \E i, j \in DOMAIN last.args.ids :
           /\ last.args.ids[i] \in Ids(Before)
           /\ last.args.ids[j] \notin Ids(Before)
           /\ After.chunks[Pos(After, last.args.ids[i])].metadata # last.args.metadatas[i]
           /\ After.chunks[Pos(After, last.args.ids[i])].metadata
                  # Before.chunks[Pos(Before, last.args.ids[i])].metadata

\* C11: get_chunks_by_ids does not raise and returns, once each, the records
\* of exactly those requested ids the collection holds, with their stored
\* text and metadata; a requested id that is not stored yields nothing.
GetReturnsPresent ==
    last.op = "get_chunks_by_ids"
        => /\ last.result = "ok"
           /\ Range(last.out.ids) = Range(last.args.ids) \cap Ids(Before)
           /\ Len(last.out.ids) = Cardinality(Range(last.out.ids))
           /\ \A j \in DOMAIN last.out.ids :
                  LET ch == Before.chunks[Pos(Before, last.out.ids[j])]
                  IN  /\ last.out.documents[j] = ch.document
                      /\ last.out.metadatas[j] = ch.metadata

\* C11 witness: a lookup of a stored id together with one that is not stored
GetMixedWitness ==
    /\ last.op = "get_chunks_by_ids" /\ last.result = "ok"
    /\ Range(last.args.ids) \cap Ids(Before) # {}
    /\ Range(last.args.ids) \ Ids(Before) # {}
    /\ Len(last.out.ids) = 1

\* all records of a collection have the collection's dimensionality
OneDimensionality(c) == \A i \in DOMAIN c.chunks : Len(c.chunks[i].embedding) = c.dim

\* C12: the records of every collection share one embedding
\* dimensionality, and an add_chunks call with an embedding of another
\* dimensionality than the collection's fails with a dimension error and
\* leaves the collection as it was.
DimensionMismatchRejected ==
    /\ \A n \in Names : OneDimensionality(db[n])
    /\ (last.op = "add_chunks" /\ LengthsOk(last.args) /\ ~DimsOk(Before, last.args))
           => /\ last.result \in {"DimensionMismatchError", "InvalidDimensionException"}
              /\ After = Before

\* C13: a manager constructed on the same directory leaves every collection
\* the directory held as it was; constructed with the same collection name it
\* changes nothing in the directory, refers to the collection the old manager
\* referred to, and observes the same count, ids, texts and metadata.
RestartPreserves ==
    last.op = "__init__"
        => /\ last.result = "ok"
           /\ \A n \in Names : Exists(last.before, n) => db[n] = last.before[n]
           /\ last.args.collection_name = last.name
                  => /\ db = last.before
                     /\ collection = Before.uuid
                     /\ CountChunks(db, collection).out = CollectionCount(Before)
                     /\ \A ids \in IdLists(MaxIds) :
                            GetChunksByIds(db, collection, ids).out
                                = CollectionGet(Before, ids).out

\* C13 witness: a restart on the same name after writes left the collection
\* non-empty and different from what the directory first held
RestartAfterWritesWitness ==
    /\ last.op = "__init__" /\ last.args.collection_name = last.name
    /\ Before.chunks # <<>>
    /\ Before.chunks \notin {SeedChunks, NoteChunks}
    /\ After.chunks = Before.chunks

\* the texts of the chunks, one after the other
RECURSIVE Join(_)
Join(chunks) == IF chunks = <<>> THEN <<>> ELSE Head(chunks) \o Join(Tail(chunks))

\* the chunks are spans of the document, each starting after the start of
\* the one before
InDocumentOrder(doc, chunks) ==
    \E start \in [DOMAIN chunks -> 1..Len(doc)] :
        /\ \A i \in DOMAIN chunks :
               /\ start[i] + Len(chunks[i]) - 1 <= Len(doc)
               /\ chunks[i] = SubSeq(doc, start[i], start[i] + Len(chunks[i]) - 1)
        /\ \A i, j \in DOMAIN chunks : i < j => start[i] < start[j]

\* a chunker call that was handed a document
ChunkedDocument == chunked.op = "cunk_document" /\ chunked.args # <<>>

\* C14: for both strategies, chunking a non-empty document returns a
\* non-empty sequence of chunks, none with empty text, in document order;
\* a one-word document, too short to split, comes back as the single chunk
\* holding the whole document.
ChunksNonEmptyInOrder ==
    (ChunkedDocument /\ chunked.args[1] # <<>>)
        => /\ chunked.result = "ok"
           /\ chunked.out # <<>>
           /\ \A i \in DOMAIN chunked.out : chunked.out[i] # <<>>
           /\ InDocumentOrder(chunked.args[1], chunked.out)
           /\ Len(chunked.args[1]) = 1 => chunked.out = <<chunked.args[1]>>

\* C15: for both strategies (no overlap is configured), the texts of the
\* chunks returned for a document D, joined in order, are D.
ChunksJoinToDocument ==
    ChunkedDocument
        => /\ chunked.result = "ok"
           /\ Join(chunked.out) = chunked.args[1]

\* C16: a LateChunking object is never constructed over an embedder
\* without per-token vectors: its construction signals CapabilityError, and
\* no chunking call does.
LateChunkingCapabilityChecked ==
    /\ (chunked.op = "__init__" /\ chunked.args.cls = "LateChunking"
            /\ chunked.args.model.loadable /\ ~chunked.args.model.token_vectors)
           => chunked.result = "CapabilityError"
    /\ chunker.cls = "LateChunking" => chunker.model[1].token_vectors
    /\ chunked.op = "cunk_document" => chunked.result # "CapabilityError"

ReadOps == {"query_similar", "get_chunks_by_ids", "count_chunks", "list_collections"}

\* C18: query_similar, get_chunks_by_ids, count_chunks and list_collections
\* leave every collection of the directory as it was, create and remove
\* none, and leave collection_name and the handle as they were.
ReadsChangeNothing ==
    last.op \in ReadOps
        => /\ db = last.before
           /\ collection_name = last.name
           /\ collection = Before.uuid

\* C18 witness: a lookup that returned records, made while another
\* collection holds records too
ReadReturnedRecordsWitness ==
    /\ last.op = "get_chunks_by_ids" /\ last.result = "ok"
    /\ last.out.ids # <<>>
    /\ \E n \in Names \ {last.name} : last.before[n].chunks # <<>>
    /\ db = last.before

====
